---- MODULE Spec2Model ----
(***************************************************************************)
(* Model of the whale-transaction pipeline of whale_movement:              *)
(*   src/src/fetch_whales.py  get_token_price_usd,                         *)
(*                            fetch_transactions_for_wallet,               *)
(*                            fetch_whale_transactions                     *)
(*   src/src/fetch_price.py   fetch_token_price_history                    *)
(*   src/src/env.py           get_api_key                                  *)
(*   src/src/config.py        Config.get_date                              *)
(*   src/main.py              main                                         *)
(*                                                                         *)
(* Dates are day numbers (their order is the order of the ISO strings the  *)
(* code compares).  Money is in whole USD and native amounts are whole     *)
(* multiples of one SOL, so that every product and quotient the code       *)
(* computes in floating point is exact in the integers used here.          *)
(* Fields the code copies verbatim into a record and never inspects        *)
(* (fromUserAccount, toUserAccount, signature, timestamp) are left out.    *)
(***************************************************************************)
EXTENDS Integers, Sequences, FiniteSets, TLC

VARIABLES
    pc,             \* position of the run
    chunk,          \* 90-day chunks of the price range requested so far
    cfg,            \* configuration and environment the run reads
    price_df,       \* Price Index: rows [date, price], as built by groupby
    raw_prices,     \* price samples returned by the price API
    qdate,          \* date last passed to get_token_price_usd (lookup spec)
    qresult,        \* value it returned
    addresses,      \* addresses after dropna().unique()
    ai,             \* number of addresses whose loop iteration has begun
    txs,            \* response being processed for the current address
    ti,             \* number of transactions of txs already processed
    all_whale_txs,  \* the append-only collector
    df,             \* the returned frame: rows carry their index label
    log,            \* records written to the logger
    http,           \* HTTP requests issued so far
    csv_file,       \* whale_transactions.csv as written by the run
    responses       \* per fetch attempt: address, outcome, transactions returned

vars == <<pc, chunk, cfg, price_df, raw_prices, qdate, qresult, addresses, ai, txs,
          ti, all_whale_txs, df, log, http, csv_file, responses>>

----------------------------------------------------------------------------
(* Bounds of the explored inputs *)

MaxAddrs == 2       \* rows of the address file
MaxTransfers == 3   \* transfers over all responses of one run
MaxDate == 3        \* dates are 1..MaxDate
MaxSamples == 3     \* price samples returned by the price API
MaxTxTransfers == 2 \* transfers of the transaction of the single-transaction runs
MaxChunks == 2      \* 90-day chunks the configured date range spans
MaxRows == 3        \* rows of the address files with blanks and duplicates

Dates == 1..MaxDate

(* Program constants *)

LAMPORTS_PER_SOL == 1000000000
STABLE_PRICE == 1
WSOL_MINT == "So11111111111111111111111111111111111111112"
USDC_MINT == "EPjFWdd5AufqSSqeM2qN1xzybapC8G4wEGGkZwyTDt1v"
USDT_MINT == "Es9vMFrzaCERmJfrF4H2FYD4KCoNkY11McCe8BenwNYB"
REDACTED == "***REDACTED***"
DEFAULT_LIMIT == 100

(* Values of the environment used in the explored runs *)

OTHER_MINT == "BONKxxxxxxxxxxxxxxxxxxxxxxxxxxxxxxxxxxxxxxxx"
API_KEY == "helius-secret-key"
BASE_URL == "https://api.helius.xyz/v0"
NaN == <<"NaN">>      \* what a frame holds where a row has no value
BLANK == "NaN"        \* an empty cell of the address column
Wallets == <<"walletA", "walletB", "walletC", "walletD">>
Thresholds == {150, 300}

----------------------------------------------------------------------------
(* Generic helpers *)

Range(s) == {s[i] : i \in 1..Len(s)}

SeqsUpTo(S, n) == UNION {[1..k -> S] : k \in 0..n}

RECURSIVE SumSeq(_)
SumSeq(s) == IF s = <<>> THEN 0 ELSE Head(s) + SumSeq(Tail(s))

----------------------------------------------------------------------------
(* Price Index *)

SamplePrices == {120, 180}

\* fetch_price.py 86-89: one row per date, the mean of that date's samples,
\* rows in ascending date order (groupby sorts its keys).  Sample prices are
\* multiples of 60, so the mean of up to five samples is an integer.
DateSamples(raw, d) == SelectSeq(raw, LAMBDA r : r.date = d)

MeanPrice(samples) == SumSeq([i \in 1..Len(samples) |-> samples[i].price]) \div Len(samples)

RECURSIVE GroupRows(_, _)
GroupRows(raw, d) ==
    IF d > MaxDate THEN <<>>
    ELSE (IF DateSamples(raw, d) = <<>> THEN <<>>
          ELSE <<[date |-> d, price |-> MeanPrice(DateSamples(raw, d))]>>)
         \o GroupRows(raw, d + 1)

GroupByDateMean(raw) == GroupRows(raw, 1)

\* fetch_whales.py 11-35
get_token_price_usd_first_row(date_str, pdf) ==
    LET price_row == SelectSeq(pdf, LAMBDA r : r.date = date_str)
    IN  IF price_row # <<>> THEN price_row[1].price
        ELSE IF pdf # <<>> THEN pdf[1].price
        ELSE 0

get_token_price_usd_no_exact(date_str, pdf) ==
    IF pdf # <<>> THEN pdf[Len(pdf)].price ELSE 0

get_token_price_usd(date_str, pdf) ==
    LET price_row == SelectSeq(pdf, LAMBDA r : r.date = date_str)
    IN  IF price_row # <<>> THEN price_row[1].price
        ELSE IF pdf # <<>> THEN pdf[Len(pdf)].price
        ELSE 0

IndexDates(pdf) == {pdf[i].date : i \in 1..Len(pdf)}

----------------------------------------------------------------------------
(* Raw records of the transaction API *)

\* An amount field: a number, a value float() rejects, or no field at all.
Num(n) == [k |-> "num", v |-> n]
BadAmount == [k |-> "bad", v |-> 0]
NoAmount == [k |-> "absent", v |-> 0]

\* A mint field: a string, JSON null, or no field at all.
Mint(m) == [k |-> "str", v |-> m]
NullMint == [k |-> "null", v |-> ""]
NoMint == [k |-> "absent", v |-> ""]

NativeT(a) == [kind |-> "native", shape |-> "dict", amount |-> a, mint |-> NoMint]
TokenT(m, a) == [kind |-> "token", shape |-> "dict", amount |-> a, mint |-> m]
NotADict(kd) == [kind |-> kd, shape |-> "notdict", amount |-> NoAmount, mint |-> NoMint]

ValidNative == {NativeT(Num(LAMPORTS_PER_SOL)), NativeT(Num(2 * LAMPORTS_PER_SOL))}
ValidToken ==
    {TokenT(Mint(USDC_MINT), Num(150)), TokenT(Mint(USDC_MINT), Num(300)),
     TokenT(Mint(USDC_MINT), Num(500)), TokenT(Mint(USDT_MINT), Num(300)),
     TokenT(Mint(WSOL_MINT), Num(2)), TokenT(Mint(OTHER_MINT), Num(300)),
     TokenT(NoMint, Num(300))}
MalformedNative == {NativeT(BadAmount), NotADict("native")}
MalformedToken == {TokenT(Mint(USDC_MINT), BadAmount), TokenT(NullMint, Num(300)),
                   NotADict("token")}
NativeInputs == ValidNative \cup MalformedNative \cup {NativeT(NoAmount)}
TokenInputs == ValidToken \cup MalformedToken

\* A transaction: has_ts is FALSE when the timestamp field is missing;
\* native_list / token_list are FALSE when the field holds a number
\* instead of a list.
Tx(h, d, nl, n, tl, t) ==
    [has_ts |-> h, date |-> d, native_list |-> nl, native |-> n,
     token_list |-> tl, tokens |-> t]

TxTransfers(tx) == Len(tx.native) + Len(tx.tokens)

RECURSIVE CountTransfers(_)
CountTransfers(ts) ==
    IF ts = <<>> THEN 0 ELSE TxTransfers(Head(ts)) + CountTransfers(Tail(ts))

\* Transactions carrying at most n transfers, with the shapes that raise:
\* no timestamp, or a transfer field that is not a list.
TxInputs(n) ==
    UNION {{Tx(TRUE, d, TRUE, nat, TRUE, tok) :
                d \in Dates,
                nat \in [1..a -> NativeInputs], tok \in [1..(k - a) -> TokenInputs]} :
           a \in 0..n, k \in 0..n}
    \cup UNION {{Tx(FALSE, 1, TRUE, nat, TRUE, <<>>) : nat \in [1..a -> NativeInputs]} :
                a \in 0..n}
    \cup UNION {{Tx(TRUE, d, TRUE, nat, FALSE, <<>>) :
                    d \in Dates, nat \in [1..a -> NativeInputs]} : a \in 0..n}
    \cup UNION {{Tx(TRUE, d, FALSE, <<>>, TRUE, tok) :
                    d \in Dates, tok \in [1..a -> TokenInputs]} : a \in 0..n}

----------------------------------------------------------------------------
(* Transfer Normalizer: the body of the transaction loop *)

LogRec(lv, ln, tx) == [level |-> lv, line |-> ln, text |-> tx]

\* float(transfer.get(..., 0)) raises on a non-dict and on a non-numeric value
AmountRaises(t) == t.shape = "notdict" \/ t.amount.k = "bad"

AmountOf(t) == IF t.amount.k = "num" THEN t.amount.v ELSE 0

\* fetch_whales.py 137 and 184
Qualifies_strict(usd_value, whale_threshold) == usd_value > whale_threshold

Qualifies(usd_value, whale_threshold) == usd_value >= whale_threshold

\* fetch_whales.py 131-132: lamports to SOL
AmountSol(transfer) == AmountOf(transfer) \div LAMPORTS_PER_SOL

\* fetch_whales.py 128-153: one native transfer; the rows it appends
NativeRows(addr, date_str, price_usd, whale_threshold, transfer) ==
    IF AmountRaises(transfer) THEN <<>>
    ELSE LET amount_sol == AmountSol(transfer)
             usd_value == amount_sol * price_usd
         IN  IF Qualifies(usd_value, whale_threshold)
             THEN <<[wallet |-> addr, type |-> "NATIVE_SOL", amount |-> amount_sol,
                     usd_value |-> usd_value, date |-> date_str,
                     token_address |-> WSOL_MINT, token_symbol |-> NaN]>>
             ELSE <<>>

\* the characters of the mint identifiers of the explored runs
MintChars(m) ==
    IF m = WSOL_MINT THEN
        <<"S", "o", "1", "1", "1", "1", "1", "1", "1", "1", "1", "1",
          "1", "1", "1", "1", "1", "1", "1", "1", "1", "1", "1", "1",
          "1", "1", "1", "1", "1", "1", "1", "1", "1", "1", "1", "1",
          "1", "1", "1", "1", "1", "1", "2">>
    ELSE IF m = USDC_MINT THEN
        <<"E", "P", "j", "F", "W", "d", "d", "5", "A", "u", "f", "q",
          "S", "S", "q", "e", "M", "2", "q", "N", "1", "x", "z", "y",
          "b", "a", "p", "C", "8", "G", "4", "w", "E", "G", "G", "k",
          "Z", "w", "y", "T", "D", "t", "1", "v">>
    ELSE IF m = USDT_MINT THEN
        <<"E", "s", "9", "v", "M", "F", "r", "z", "a", "C", "E", "R",
          "m", "J", "f", "r", "F", "4", "H", "2", "F", "Y", "D", "4",
          "K", "C", "o", "N", "k", "Y", "1", "1", "M", "c", "C", "e",
          "8", "B", "e", "n", "w", "N", "Y", "B">>
    ELSE IF m = OTHER_MINT THEN
        <<"B", "O", "N", "K", "x", "x", "x", "x", "x", "x", "x", "x",
          "x", "x", "x", "x", "x", "x", "x", "x", "x", "x", "x", "x",
          "x", "x", "x", "x", "x", "x", "x", "x", "x", "x", "x", "x",
          "x", "x", "x", "x", "x", "x", "x", "x">>
    ELSE <<>>

\* mint[:8]: a slice stops at the end of a shorter string
Prefix8(m) ==
    LET c == MintChars(m)
    IN  SubSeq(c, 1, IF Len(c) < 8 THEN Len(c) ELSE 8)

TokenSymbol(m) ==
    IF m = WSOL_MINT THEN <<"wSOL">>
    ELSE IF m = USDC_MINT THEN <<"USDC">>
    ELSE IF m = USDT_MINT THEN <<"USDT">>
    ELSE <<"TOKEN-", Prefix8(m), "...">>

TokenPrice_unknown_at_lookup(m, price_usd) ==
    IF m = WSOL_MINT THEN price_usd
    ELSE IF m = USDC_MINT THEN STABLE_PRICE
    ELSE IF m = USDT_MINT THEN STABLE_PRICE
    ELSE price_usd

TokenPrice(m, price_usd) ==
    IF m = WSOL_MINT THEN price_usd
    ELSE IF m = USDC_MINT THEN STABLE_PRICE
    ELSE IF m = USDT_MINT THEN STABLE_PRICE
    ELSE STABLE_PRICE

\* a null mint reaches mint[:8] and raises
TokenRaises(t) == AmountRaises(t) \/ t.mint.k = "null"

\* fetch_whales.py 160-201: one token transfer; the rows it appends
TokenRows(addr, date_str, price_usd, whale_threshold, transfer) ==
    IF TokenRaises(transfer) THEN <<>>
    ELSE LET mint == transfer.mint.v
             amount == AmountOf(transfer)
             usd_value == amount * TokenPrice(mint, price_usd)
         IN  IF Qualifies(usd_value, whale_threshold)
             THEN <<[wallet |-> addr, type |-> "TOKEN", amount |-> amount,
                     usd_value |-> usd_value, date |-> date_str,
                     token_address |-> mint, token_symbol |-> TokenSymbol(mint)]>>
             ELSE <<>>

RECURSIVE NativeLoop(_, _, _, _, _)
NativeLoop(addr, date_str, price_usd, whale_threshold, ts) ==
    IF ts = <<>> THEN <<>>
    ELSE NativeRows(addr, date_str, price_usd, whale_threshold, Head(ts))
         \o NativeLoop(addr, date_str, price_usd, whale_threshold, Tail(ts))

RECURSIVE TokenLoop(_, _, _, _, _)
TokenLoop(addr, date_str, price_usd, whale_threshold, ts) ==
    IF ts = <<>> THEN <<>>
    ELSE TokenRows(addr, date_str, price_usd, whale_threshold, Head(ts))
         \o TokenLoop(addr, date_str, price_usd, whale_threshold, Tail(ts))

\* warnings of lines 152 and 200, in loop order
RECURSIVE TransferWarnings(_, _)
TransferWarnings(ts, ln) ==
    IF ts = <<>> THEN <<>>
    ELSE (IF (IF ln = 152 THEN AmountRaises(Head(ts)) ELSE TokenRaises(Head(ts)))
          THEN <<LogRec("WARNING", ln, <<"transfer error">>)>> ELSE <<>>)
         \o TransferWarnings(Tail(ts), ln)

\* fetch_whales.py 112-205: the rows one transaction appends
TxRows(addr, tx, pdf, whale_threshold) ==
    IF ~tx.has_ts THEN <<>>
    ELSE LET price_usd == get_token_price_usd(tx.date, pdf)
         IN  IF price_usd = 0 THEN <<>>
             ELSE IF ~tx.native_list THEN <<>>
             ELSE NativeLoop(addr, tx.date, price_usd, whale_threshold, tx.native)
                  \o (IF ~tx.token_list THEN <<>>
                      ELSE TokenLoop(addr, tx.date, price_usd, whale_threshold, tx.tokens))

\* TRUE when the transaction raises into the handler of line 203
TxRaises(tx, pdf) ==
    \/ ~tx.has_ts
    \/ /\ get_token_price_usd(tx.date, pdf) # 0
       /\ (~tx.native_list \/ ~tx.token_list)

TxWarnings(tx, pdf) ==
    IF ~tx.has_ts THEN <<LogRec("WARNING", 204, <<"transaction error">>)>>
    ELSE IF get_token_price_usd(tx.date, pdf) = 0 THEN <<>>
    ELSE IF ~tx.native_list THEN <<LogRec("WARNING", 204, <<"transaction error">>)>>
    ELSE TransferWarnings(tx.native, 152)
         \o (IF ~tx.token_list THEN <<LogRec("WARNING", 204, <<"transaction error">>)>>
             ELSE TransferWarnings(tx.tokens, 200))

----------------------------------------------------------------------------
(* Configuration and environment *)

\* config.py 35-52 with default=100 (fetch_whales.py 83)
DEFAULT_THRESHOLD == 100
Unset == [set |-> FALSE, v |-> 0]
Set(x) == [set |-> TRUE, v |-> x]
WhaleThreshold(c) ==
    IF c.whale_threshold_usd.set THEN c.whale_threshold_usd.v ELSE DEFAULT_THRESHOLD

\* env.py 15-44: TRUE when get_api_key raises for the service
ApiKeyRaises(c, service) ==
    IF service = "helius" THEN ~c.helius_env \/ ~c.helius_key
    ELSE ~c.coingecko_env \/ ~c.coingecko_key

\* config.py 67-84: TRUE when get_date raises
GetDateRaises(date_cfg) == date_cfg = "unparsable"

\* fetch_whales.py 97: dropna().unique() keeps first occurrences in order
RECURSIVE DropnaUnique(_, _)
DropnaUnique_keep_duplicates(rows, seen) == SelectSeq(rows, LAMBDA a : a # BLANK)

DropnaUnique(rows, seen) ==
    IF rows = <<>> THEN <<>>
    ELSE IF Head(rows) = BLANK \/ Head(rows) \in seen
         THEN DropnaUnique(Tail(rows), seen)
         ELSE <<Head(rows)>> \o DropnaUnique(Tail(rows), seen \cup {Head(rows)})

DateCfgs == {"ok", "unparsable", "missing"}

Cfg(ce, ck, he, hk, tk, sd, ed, th, fe, rows) ==
    [config_file |-> TRUE, coingecko_env |-> ce, coingecko_key |-> ck,
     helius_env |-> he, helius_key |-> hk, token |-> tk, start_date |-> sd,
     end_date |-> ed, chunks |-> 1, whale_threshold_usd |-> th,
     file_exists |-> fe, address_rows |-> rows,
     upstream |-> [records |-> "well_formed", transfers |-> MaxTransfers]]

----------------------------------------------------------------------------
(* Wallet Transaction Fetcher *)

\* fetch_whales.py 51-55
RequestUrl(base_url, address) == <<base_url, "/addresses/", address, "/transactions">>
Params(api_key, limit) == [api_key |-> api_key, limit |-> limit]

\* fetch_whales.py 57-60
SafeParams(params) == [params EXCEPT !.api_key = REDACTED]
RequestLog(url, params) ==
    LogRec("DEBUG", 60, url \o <<"api-key", SafeParams(params).api_key, "limit">>)

\* The URL requests sends and reports: the query string is appended.
PreparedUrl(url, params) == url \o <<"?api-key=", params.api_key, "&limit">>

\* Text of the exception that leaves fetch_transactions_for_wallet:
\* raise_for_status and a failed connection both name the requested URL,
\* a body that is not JSON does not.
FetchFailures == {"http_error", "connection_error", "json_error"}
ExceptionText(outcome, url, params) ==
    IF outcome = "http_error"
        THEN <<"404 Client Error: Not Found for url: ">> \o PreparedUrl(url, params)
    ELSE IF outcome = "connection_error"
        THEN <<"Max retries exceeded with url: ">> \o PreparedUrl(url, params)
    ELSE <<"Expecting value: line 1 column 1 (char 0)">>

----------------------------------------------------------------------------
(* fetch_whale_transactions *)

\* Inputs of the explored runs
RunNative == {NativeT(Num(LAMPORTS_PER_SOL))}
RunToken == {TokenT(Mint(USDC_MINT), Num(300)), TokenT(Mint(USDC_MINT), Num(500))}
\* transactions carrying between one and n transfers
RunTxs(n) ==
    UNION {{Tx(TRUE, 1, TRUE, nat, TRUE, tok) :
                nat \in [1..a -> RunNative], tok \in [1..(k - a) -> RunToken]} :
           a \in 0..n, k \in 1..n}
\* responses carrying at most n transfers
RECURSIVE RunResponses(_)
RunResponses(n) ==
    {<<>>} \cup UNION {{<<t>> \o r : r \in RunResponses(n - TxTransfers(t))} :
                       t \in RunTxs(n)}
\* transactions whose processing raises at transaction scope (no timestamp,
\* tokenTransfers or nativeTransfers holding a number), and well-formed ones
FaultyTxs ==
    {Tx(FALSE, 1, TRUE, <<NativeT(Num(LAMPORTS_PER_SOL))>>, TRUE, <<>>),
     Tx(TRUE, 1, TRUE, <<NativeT(Num(LAMPORTS_PER_SOL))>>, FALSE, <<>>),
     Tx(TRUE, 1, FALSE, <<>>, TRUE, <<TokenT(Mint(USDC_MINT), Num(300))>>),
     Tx(TRUE, 1, TRUE, <<>>, TRUE, <<TokenT(Mint(USDC_MINT), Num(300))>>),
     Tx(TRUE, 1, TRUE, <<>>, TRUE, <<TokenT(Mint(USDC_MINT), Num(500))>>)}
RECURSIVE FaultyResponses(_)
FaultyResponses(n) ==
    {<<>>} \cup UNION {{<<t>> \o r : r \in FaultyResponses(n - TxTransfers(t))} :
                       t \in {x \in FaultyTxs : TxTransfers(x) <= n}}

\* what the upstream API can answer once `used` transfers have been served
Served(u, used) ==
    IF u.records = "well_formed" THEN RunResponses(u.transfers - used)
    ELSE FaultyResponses(u.transfers - used)
RunIndexes == {<<[date |-> 1, price |-> 150], [date |-> 2, price |-> 300]>>}

NoCsv == [written |-> FALSE, rows |-> <<>>]

\* transfers the responses of the run have carried so far
TransfersSoFar == SumSeq([i \in 1..Len(responses) |-> CountTransfers(responses[i].txs)])

\* fetch_whales.py 78-101
WhaleStart ==
    /\ pc = "whale_entry"
    /\ IF ApiKeyRaises(cfg, "helius")
          \/ GetDateRaises(cfg.start_date) \/ GetDateRaises(cfg.end_date)
       THEN /\ pc' = "whale_raised"
            /\ UNCHANGED <<addresses, df, log>>
       ELSE IF ~cfg.file_exists
       THEN /\ pc' = "whale_returned"
            /\ df' = <<>>
            /\ log' = Append(log, LogRec("ERROR", 94, <<"Whale address file not found">>))
            /\ UNCHANGED addresses
       ELSE /\ pc' = "addr_loop"
            /\ addresses' = DropnaUnique(cfg.address_rows, {})
            /\ UNCHANGED <<df, log>>
    /\ UNCHANGED <<chunk, cfg, price_df, raw_prices, qdate, qresult, ai, txs, ti,
                   all_whale_txs, http, csv_file, responses>>

\* fetch_whales.py 103-109 with 51-64: the fetch returns a list
FetchOk ==
    /\ pc = "addr_loop"
    /\ ai < Len(addresses)
    /\ LET addr == addresses[ai + 1]
           url == RequestUrl(BASE_URL, addr)
           params == Params(API_KEY, DEFAULT_LIMIT)
       IN  /\ \E r \in Served(cfg.upstream, TransfersSoFar) :
                /\ txs' = r
                /\ responses' = Append(responses,
                        [addr |-> addr, outcome |-> "ok", txs |-> r])
           /\ log' = Append(log, RequestLog(url, params))
           /\ http' = Append(http, [service |-> "helius", url |-> PreparedUrl(url, params)])
    /\ ti' = 0
    /\ pc' = "tx_loop"
    /\ UNCHANGED <<chunk, cfg, price_df, raw_prices, qdate, qresult, addresses, ai,
                   all_whale_txs, df, csv_file>>

\* where the handler of lines 207-209 leaves the run
AfterFetchFailure_abort == [pc |-> "whale_returned", ai |-> ai]

AfterFetchFailure == [pc |-> "addr_loop", ai |-> ai + 1]

\* fetch_whales.py 103-106 with 51-64 and 207-209: the fetch raises
FetchFails ==
    /\ pc = "addr_loop"
    /\ ai < Len(addresses)
    /\ LET addr == addresses[ai + 1]
           url == RequestUrl(BASE_URL, addr)
           params == Params(API_KEY, DEFAULT_LIMIT)
       IN  \E outcome \in FetchFailures :
             /\ log' = log \o <<RequestLog(url, params),
                                LogRec("WARNING", 208,
                                       <<"Failed to fetch transactions for ", addr>>
                                       \o ExceptionText(outcome, url, params))>>
             /\ http' = Append(http, [service |-> "helius", url |-> PreparedUrl(url, params)])
             /\ responses' = Append(responses,
                    [addr |-> addr, outcome |-> outcome, txs |-> <<>>])
    /\ pc' = AfterFetchFailure.pc
    /\ ai' = AfterFetchFailure.ai
    /\ UNCHANGED <<chunk, cfg, price_df, raw_prices, qdate, qresult, addresses, txs, ti,
                   all_whale_txs, df, csv_file>>

\* fetch_whales.py 62: requests.get(url, params=params) is called without a
\* timeout, so requests waits on the socket for as long as the server
\* keeps the connection open without answering: the call does not return.
FetchBlocks ==
    /\ pc = "addr_loop"
    /\ ai < Len(addresses)
    /\ LET addr == addresses[ai + 1]
           url == RequestUrl(BASE_URL, addr)
           params == Params(API_KEY, DEFAULT_LIMIT)
       IN  /\ log' = Append(log, RequestLog(url, params))
           /\ http' = Append(http, [service |-> "helius", url |-> PreparedUrl(url, params)])
    /\ pc' = "fetch_blocked"
    /\ UNCHANGED <<chunk, cfg, price_df, raw_prices, qdate, qresult, addresses, ai, txs,
                   ti, all_whale_txs, df, csv_file, responses>>

\* where the handler of lines 203-205 leaves the run
AfterTxFailure_to_address == [pc |-> "addr_loop", ti |-> ti + 1, ai |-> ai + 1]

AfterTxFailure == [pc |-> "tx_loop", ti |-> ti + 1, ai |-> ai]

\* fetch_whales.py 111-205: one iteration of the transaction loop
ProcessTx ==
    /\ pc = "tx_loop"
    /\ ti < Len(txs)
    /\ LET tx == txs[ti + 1]
           rows == TxRows(addresses[ai + 1], tx, price_df, WhaleThreshold(cfg))
       IN  /\ all_whale_txs' = all_whale_txs \o rows
           /\ log' = log \o TxWarnings(tx, price_df)
           /\ IF TxRaises(tx, price_df)
              THEN /\ pc' = AfterTxFailure.pc
                   /\ ti' = AfterTxFailure.ti
                   /\ ai' = AfterTxFailure.ai
              ELSE /\ ti' = ti + 1
                   /\ UNCHANGED <<pc, ai>>
    /\ UNCHANGED <<chunk, cfg, price_df, raw_prices, qdate, qresult, addresses,
                   txs, df, http, csv_file, responses>>

\* fetch_whales.py 111: the transaction loop is exhausted
NextAddress ==
    /\ pc = "tx_loop"
    /\ ti = Len(txs)
    /\ pc' = "addr_loop"
    /\ ai' = ai + 1
    /\ UNCHANGED <<chunk, cfg, price_df, raw_prices, qdate, qresult, addresses, txs, ti,
                   all_whale_txs, df, log, http, csv_file, responses>>

\* DataFrame(all_whale_txs): each row gets its position as index label
Frame(rows) == [i \in 1..Len(rows) |-> [index |-> i - 1, row |-> rows[i]]]

\* sort_values("usd_value", ascending=False) with the default kind
\* "quicksort", which is not a stable algorithm: every descending order of
\* the rows is a possible outcome.
RECURSIVE DescendingOrders(_)
DescendingOrders(S) ==
    IF S = {} THEN {<<>>}
    ELSE UNION {{<<r>> \o rest : rest \in DescendingOrders(S \ {r})} :
                r \in {x \in S : \A y \in S : x.row.usd_value >= y.row.usd_value}}

SortValues_unsorted(frame) == {frame}

SortValues(frame) == DescendingOrders(Range(frame))

\* fetch_whales.py 216-222: how the run ends when the frame is empty
EmptyFrameExit_raise == "whale_raised"

EmptyFrameExit == "whale_returned"

\* fetch_whales.py 211-237
Finish ==
    /\ pc = "addr_loop"
    /\ ai = Len(addresses)
    /\ IF all_whale_txs = <<>>
       THEN /\ df' = <<>>
            /\ csv_file' = csv_file
            /\ pc' = EmptyFrameExit
       ELSE /\ df' \in SortValues(Frame(all_whale_txs))
            /\ csv_file' = [written |-> TRUE, rows |-> df']
            /\ pc' = "whale_returned"
    /\ UNCHANGED <<chunk, cfg, price_df, raw_prices, qdate, qresult, addresses, ai, txs,
                   ti, all_whale_txs, log, http, responses>>

\* address files of the explored runs: the first k wallets, one per row
AddressFiles == {SubSeq(Wallets, 1, k) : k \in 0..MaxAddrs}

WhaleCfgs ==
    {Cfg(TRUE, TRUE, he, hk, TRUE, sd, ed, Set(th), fe, rows) :
        he \in BOOLEAN, hk \in BOOLEAN,
        sd \in {"ok", "unparsable"}, ed \in {"ok", "unparsable"},
        th \in Thresholds, fe \in BOOLEAN,
        rows \in AddressFiles}

Init ==
    /\ pc = "whale_entry"
    /\ chunk = 0
    /\ cfg \in WhaleCfgs
    /\ price_df \in RunIndexes
    /\ raw_prices = <<>>
    /\ qdate = 0
    /\ qresult = 0
    /\ addresses = <<>>
    /\ ai = 0
    /\ txs = <<>>
    /\ ti = 0
    /\ all_whale_txs = <<>>
    /\ df = <<>>
    /\ log = <<>>
    /\ http = <<>>
    /\ csv_file = NoCsv
    /\ responses = <<>>

Next ==
    \/ WhaleStart
    \/ FetchOk
    \/ FetchFails
    \/ FetchBlocks
    \/ ProcessTx
    \/ NextAddress
    \/ Finish

Spec == Init /\ [][Next]_vars

----------------------------------------------------------------------------
(* Runs over one address whose response is one transaction, drawn from    *)
(* all record shapes; they start where the fetch has just returned.       *)

TxIndexes == {<<>>, <<[date |-> 1, price |-> 150], [date |-> 2, price |-> 300]>>}
TxThresholds == {Unset} \cup {Set(th) : th \in Thresholds}

InitTx ==
    /\ pc = "tx_loop"
    /\ chunk = 0
    /\ cfg \in {Cfg(TRUE, TRUE, TRUE, TRUE, TRUE, "ok", "ok", th, TRUE, <<"walletA">>) :
                    th \in TxThresholds}
    /\ price_df \in TxIndexes
    /\ raw_prices = <<>>
    /\ qdate = 0
    /\ qresult = 0
    /\ addresses = <<"walletA">>
    /\ ai = 0
    /\ txs \in {<<t>> : t \in TxInputs(MaxTxTransfers)}
    /\ ti = 0
    /\ all_whale_txs = <<>>
    /\ df = <<>>
    /\ log = <<RequestLog(RequestUrl(BASE_URL, "walletA"), Params(API_KEY, DEFAULT_LIMIT))>>
    /\ http = <<[service |-> "helius",
                 url |-> PreparedUrl(RequestUrl(BASE_URL, "walletA"),
                                     Params(API_KEY, DEFAULT_LIMIT))]>>
    /\ csv_file = NoCsv
    /\ responses = <<[addr |-> "walletA", outcome |-> "ok", txs |-> txs]>>

NextTx ==
    \/ ProcessTx
    \/ NextAddress
    \/ Finish

SpecTx == InitTx /\ [][NextTx]_vars

----------------------------------------------------------------------------
(* Runs over address files whose rows repeat addresses and hold blank     *)
(* cells; the upstream serves one transfer at most.                        *)

AddrRows == SeqsUpTo({Wallets[1], Wallets[2], BLANK}, MaxRows)
AddrCfgs ==
    {[Cfg(TRUE, TRUE, TRUE, TRUE, TRUE, "ok", "ok", Set(150), TRUE, rows)
        EXCEPT !.upstream.transfers = 1] : rows \in AddrRows}

InitAddr ==
    /\ pc = "whale_entry"
    /\ chunk = 0
    /\ cfg \in AddrCfgs
    /\ price_df \in RunIndexes
    /\ raw_prices = <<>>
    /\ qdate = 0
    /\ qresult = 0
    /\ addresses = <<>>
    /\ ai = 0
    /\ txs = <<>>
    /\ ti = 0
    /\ all_whale_txs = <<>>
    /\ df = <<>>
    /\ log = <<>>
    /\ http = <<>>
    /\ csv_file = NoCsv
    /\ responses = <<>>

SpecAddr == InitAddr /\ [][Next]_vars

----------------------------------------------------------------------------
(* Runs whose responses hold transactions that raise at transaction scope *)

FaultyCfgs ==
    {[Cfg(TRUE, TRUE, TRUE, TRUE, TRUE, "ok", "ok", Set(150), TRUE, SubSeq(Wallets, 1, 2))
        EXCEPT !.upstream.records = "faulty"]}

InitFaulty ==
    /\ pc = "whale_entry"
    /\ chunk = 0
    /\ cfg \in FaultyCfgs
    /\ price_df \in RunIndexes
    /\ raw_prices = <<>>
    /\ qdate = 0
    /\ qresult = 0
    /\ addresses = <<>>
    /\ ai = 0
    /\ txs = <<>>
    /\ ti = 0
    /\ all_whale_txs = <<>>
    /\ df = <<>>
    /\ log = <<>>
    /\ http = <<>>
    /\ csv_file = NoCsv
    /\ responses = <<>>

SpecFaulty == InitFaulty /\ [][Next]_vars

----------------------------------------------------------------------------
(* Price Index runs: the samples are grouped, then dates are looked up.   *)

Samples == {[date |-> d, price |-> p] : d \in Dates, p \in SamplePrices}

\* fetch_price.py 82-89
BuildIndex ==
    /\ pc = "price_samples"
    /\ price_df' = GroupByDateMean(raw_prices)
    /\ pc' = "price_built"
    /\ UNCHANGED <<chunk, cfg, raw_prices, qdate, qresult, addresses, ai, txs, ti,
                   all_whale_txs, df, log, http, csv_file, responses>>

\* fetch_whales.py 117 with 11-35
Lookup ==
    /\ pc \in {"price_built", "looked_up"}
    /\ \E d \in Dates :
         /\ qdate' = d
         /\ qresult' = get_token_price_usd(d, price_df)
    /\ pc' = "looked_up"
    /\ UNCHANGED <<chunk, cfg, price_df, raw_prices, addresses, ai, txs, ti,
                   all_whale_txs, df, log, http, csv_file, responses>>

InitLookup ==
    /\ pc = "price_samples"
    /\ chunk = 0
    /\ cfg = Cfg(TRUE, TRUE, TRUE, TRUE, TRUE, "ok", "ok", Unset, TRUE, <<>>)
    /\ price_df = <<>>
    /\ raw_prices \in SeqsUpTo(Samples, MaxSamples)
    /\ qdate = 0
    /\ qresult = 0
    /\ addresses = <<>>
    /\ ai = 0
    /\ txs = <<>>
    /\ ti = 0
    /\ all_whale_txs = <<>>
    /\ df = <<>>
    /\ log = <<>>
    /\ http = <<>>
    /\ csv_file = NoCsv
    /\ responses = <<>>

NextLookup ==
    \/ BuildIndex
    \/ Lookup

SpecLookup == InitLookup /\ [][NextLookup]_vars

----------------------------------------------------------------------------
(* main: configuration, price history, then the whale extraction *)

\* main.py 15-19 with config.py 17-33
MainLoadConfig ==
    /\ pc = "main_entry"
    /\ pc' = IF cfg.config_file THEN "price_entry" ELSE "main_raised"
    /\ UNCHANGED <<chunk, cfg, price_df, raw_prices, qdate, qresult, addresses, ai,
                   txs, ti, all_whale_txs, df, log, http, csv_file, responses>>

\* fetch_price.py 21: a token or date value is missing
PriceValuesMissing(c) ==
    ~c.token \/ c.start_date = "missing" \/ c.end_date = "missing"

\* fetch_price.py 12-22 with 100-102 and main.py 24-26
PriceConfig ==
    /\ pc = "price_entry"
    /\ IF ApiKeyRaises(cfg, "coingecko") \/ PriceValuesMissing(cfg)
       THEN /\ pc' = "main_exit"
            /\ log' = Append(log, LogRec("ERROR", 101, <<"Error fetching token prices">>))
       ELSE /\ pc' = "price_ping"
            /\ log' = log
    /\ UNCHANGED <<chunk, cfg, price_df, raw_prices, qdate, qresult, addresses, ai,
                   txs, ti, all_whale_txs, df, http, csv_file, responses>>

PriceRequest(endpoint) == [service |-> "coingecko", url |-> <<endpoint>>]

\* fetch_price.py 29-45: the ping, then the dates are parsed
PricePing ==
    /\ pc = "price_ping"
    /\ http' = Append(http, PriceRequest("/ping"))
    /\ \E ping_ok \in BOOLEAN :
         IF ~ping_ok
         THEN /\ pc' = "main_exit"
              /\ log' = Append(log, LogRec("ERROR", 36, <<"CoinGecko API key may be invalid">>))
         ELSE IF cfg.start_date = "unparsable" \/ cfg.end_date = "unparsable"
         THEN /\ pc' = "main_exit"
              /\ log' = Append(log, LogRec("ERROR", 101, <<"Error fetching token prices">>))
         ELSE /\ pc' = IF cfg.chunks = 0 THEN "price_samples" ELSE "price_chunks"
              /\ log' = log
    /\ UNCHANGED <<chunk, cfg, price_df, raw_prices, qdate, qresult, addresses, ai,
                   txs, ti, all_whale_txs, df, csv_file, responses>>

ChunkSamples == {<<>>, <<[date |-> 1, price |-> 120]>>,
                 <<[date |-> 1, price |-> 180], [date |-> 2, price |-> 180]>>}

\* fetch_price.py 47-80: one chunk; an HTTP error of the range endpoint is
\* retried on the fallback endpoint, any other failure ends the fetch
PriceChunk ==
    /\ pc = "price_chunks"
    /\ \E outcome \in {"ok", "http_error_then_ok", "http_error_twice", "error"} :
         /\ http' = IF outcome \in {"http_error_then_ok", "http_error_twice"}
                    THEN http \o <<PriceRequest("/market_chart/range"),
                                   PriceRequest("/market_chart")>>
                    ELSE Append(http, PriceRequest("/market_chart/range"))
         /\ IF outcome \in {"ok", "http_error_then_ok"}
            THEN /\ \E prices \in ChunkSamples : raw_prices' = raw_prices \o prices
                 /\ chunk' = chunk + 1
                 /\ pc' = IF chunk + 1 = cfg.chunks THEN "price_samples" ELSE "price_chunks"
                 /\ log' = IF outcome = "ok" THEN log
                           ELSE Append(log, LogRec("WARNING", 69, <<"Range API failed">>))
            ELSE /\ pc' = "main_exit"
                 /\ log' = log \o (IF outcome = "http_error_twice"
                                   THEN <<LogRec("WARNING", 69, <<"Range API failed">>)>>
                                   ELSE <<>>)
                                \o <<LogRec("ERROR", 101, <<"Error fetching token prices">>)>>
                 /\ UNCHANGED <<chunk, raw_prices>>
    /\ UNCHANGED <<cfg, price_df, qdate, qresult, addresses, ai, txs, ti,
                   all_whale_txs, df, csv_file, responses>>

\* main.py 23-31: the price frame comes back
MainAfterPrice ==
    /\ pc = "price_built"
    /\ pc' = IF price_df = <<>> THEN "main_exit" ELSE "whale_entry"
    /\ UNCHANGED <<chunk, cfg, price_df, raw_prices, qdate, qresult, addresses, ai,
                   txs, ti, all_whale_txs, df, log, http, csv_file, responses>>

\* main.py 33-41: the whale frame comes back, or the call raised
MainAfterWhale ==
    /\ pc \in {"whale_returned", "whale_raised"}
    /\ pc' = IF pc = "whale_raised" \/ df = <<>> THEN "main_exit" ELSE "main_preprocess"
    /\ UNCHANGED <<chunk, cfg, price_df, raw_prices, qdate, qresult, addresses, ai,
                   txs, ti, all_whale_txs, df, log, http, csv_file, responses>>

KeyCfgs == {<<TRUE, TRUE>>, <<TRUE, FALSE>>, <<FALSE, FALSE>>}

MainCfgs ==
    {[Cfg(cg[1], cg[2], he[1], he[2], tk, sd, ed, Set(150), TRUE, <<"walletA">>)
        EXCEPT !.config_file = cf, !.chunks = n] :
        cg \in KeyCfgs, he \in KeyCfgs, tk \in BOOLEAN, sd \in DateCfgs,
        ed \in DateCfgs, cf \in BOOLEAN, n \in 0..MaxChunks}

InitMain ==
    /\ pc = "main_entry"
    /\ chunk = 0
    /\ cfg \in MainCfgs
    /\ price_df = <<>>
    /\ raw_prices = <<>>
    /\ qdate = 0
    /\ qresult = 0
    /\ addresses = <<>>
    /\ ai = 0
    /\ txs = <<>>
    /\ ti = 0
    /\ all_whale_txs = <<>>
    /\ df = <<>>
    /\ log = <<>>
    /\ http = <<>>
    /\ csv_file = NoCsv
    /\ responses = <<>>

NextMain ==
    \/ MainLoadConfig
    \/ PriceConfig
    \/ PricePing
    \/ PriceChunk
    \/ BuildIndex
    \/ MainAfterPrice
    \/ WhaleStart
    \/ FetchOk
    \/ FetchFails
    \/ FetchBlocks
    \/ ProcessTx
    \/ NextAddress
    \/ Finish
    \/ MainAfterWhale

SpecMain == InitMain /\ [][NextMain]_vars

----------------------------------------------------------------------------
(* Properties *)

Returned == pc = "whale_returned"

LatestDate(pdf) == CHOOSE d \in IndexDates(pdf) : \A e \in IndexDates(pdf) : e <= d
StoredPrice(pdf, d) == pdf[CHOOSE i \in 1..Len(pdf) : pdf[i].date = d].price
EarlierDates(pdf, d) == {e \in IndexDates(pdf) : e <= d}
GreatestAtMost(pdf, d) ==
    CHOOSE e \in EarlierDates(pdf, d) : \A f \in EarlierDates(pdf, d) : f <= e

LookedUpAbsent ==
    /\ pc = "looked_up"
    /\ price_df # <<>>
    /\ qdate \notin IndexDates(price_df)

\* C5 as stated: a date absent from the non-empty index and earlier than
\* its latest date is priced at the greatest indexed date <= it, and at the
\* latest stored date only when no indexed date is <= it.
C5_BackwardFallback ==
    (LookedUpAbsent /\ qdate < LatestDate(price_df)) =>
        qresult = IF EarlierDates(price_df, qdate) # {}
                  THEN StoredPrice(price_df, GreatestAtMost(price_df, qdate))
                  ELSE StoredPrice(price_df, LatestDate(price_df))

\* C5 amended: a date absent from the non-empty index is priced at the
\* latest stored date, also when an earlier indexed date exists.
C5_LatestFallback ==
    LookedUpAbsent => qresult = StoredPrice(price_df, LatestDate(price_df))

C5_Witness ==
    /\ LookedUpAbsent
    /\ qdate < LatestDate(price_df)
    /\ EarlierDates(price_df, qdate) # {}
    /\ StoredPrice(price_df, GreatestAtMost(price_df, qdate)) # qresult

\* C6: a date present in the index is priced at exactly the price stored
\* for that date.
C6_ExactDate ==
    (pc = "looked_up" /\ qdate \in IndexDates(price_df)) =>
        \A i \in 1..Len(price_df) :
            price_df[i].date = qdate => qresult = price_df[i].price

C6_Witness ==
    /\ pc = "looked_up"
    /\ qdate \in IndexDates(price_df)
    /\ qdate # LatestDate(price_df)
    /\ qresult # StoredPrice(price_df, LatestDate(price_df))
    /\ qresult # price_df[1].price

(* The single transaction of a SpecTx run, and what the specification says *)
(* about its transfers.                                                    *)

TheTx == txs[1]
Threshold == WhaleThreshold(cfg)
TxPrice(tx) == get_token_price_usd(tx.date, price_df)
WellShapedTx(tx) == tx.has_ts /\ tx.native_list /\ tx.token_list
AllTransfers(tx) == tx.native \o tx.tokens
IsStablecoin(t) ==
    /\ t.kind = "token" /\ t.shape = "dict" /\ t.amount.k = "num"
    /\ t.mint.k = "str" /\ t.mint.v \in {USDC_MINT, USDT_MINT}
IsMalformed(t) == t \in MalformedNative \cup MalformedToken
IsValid(t) == t \in ValidNative \cup ValidToken

\* usd_value of a valid transfer as section 4.3 of the specification defines it
SpecUsd(t, tx) ==
    IF t.kind = "native" THEN (t.amount.v \div LAMPORTS_PER_SOL) * TxPrice(tx)
    ELSE IF t.mint.k = "str" /\ t.mint.v = WSOL_MINT THEN t.amount.v * TxPrice(tx)
    ELSE t.amount.v

RowUsd(rows) == [i \in 1..Len(rows) |-> rows[i].usd_value]
FrameUsd(frame) == [i \in 1..Len(frame) |-> frame[i].row.usd_value]

OneMalformedOneValid(tx) ==
    /\ WellShapedTx(tx)
    /\ Len(AllTransfers(tx)) = 2
    /\ \E i, j \in 1..2 :
         /\ i # j
         /\ IsMalformed(AllTransfers(tx)[i])
         /\ IsValid(AllTransfers(tx)[j])
         /\ SpecUsd(AllTransfers(tx)[j], tx) >= Threshold

TheValid(tx) == CHOOSE t \in Range(AllTransfers(tx)) : IsValid(t)

\* C2: a transaction with one malformed transfer and one valid transfer
\* whose usd_value meets the threshold, in either order and of either
\* kind, yields exactly one row: the valid transfer's.
C2_TransferIsolation ==
    (Returned /\ OneMalformedOneValid(TheTx)) =>
        /\ Len(df) = 1
        /\ df[1].row.usd_value = SpecUsd(TheValid(TheTx), TheTx)
        /\ df[1].row.type = (IF TheValid(TheTx).kind = "native"
                             THEN "NATIVE_SOL" ELSE "TOKEN")

\* C4: a stablecoin token transfer whose amount meets the threshold is in
\* the result with usd_value = amount, whatever the Price Index holds.
C4_StablecoinAnyIndex ==
    (Returned /\ WellShapedTx(TheTx)) =>
        \A i \in 1..Len(TheTx.tokens) :
            LET t == TheTx.tokens[i]
            IN  (IsStablecoin(t) /\ t.amount.v * STABLE_PRICE >= Threshold) =>
                    \E k \in 1..Len(df) :
                        /\ df[k].row.type = "TOKEN"
                        /\ df[k].row.token_address = t.mint.v
                        /\ df[k].row.amount = t.amount.v
                        /\ df[k].row.usd_value = t.amount.v * STABLE_PRICE

\* The transfers the run values: those it reaches and converts without
\* an exception, with the usd_value it computes for each.
ValuedUsd(tx) ==
    LET reached_native == IF tx.has_ts /\ TxPrice(tx) # 0 /\ tx.native_list
                          THEN tx.native ELSE <<>>
        reached_token == IF WellShapedTx(tx) /\ TxPrice(tx) # 0
                         THEN tx.tokens ELSE <<>>
        nat == SelectSeq(reached_native, LAMBDA t : ~AmountRaises(t))
        tok == SelectSeq(reached_token, LAMBDA t : ~TokenRaises(t))
    IN  [i \in 1..Len(nat) |-> AmountSol(nat[i]) * TxPrice(tx)]
        \o [i \in 1..Len(tok) |-> AmountOf(tok[i]) * TokenPrice(tok[i].mint.v, TxPrice(tx))]

ListRead == Returned /\ cfg.file_exists

RECURSIVE ExpectedRows(_, _)
ExpectedRows(addr, ts) ==
    IF ts = <<>> THEN <<>>
    ELSE TxRows(addr, Head(ts), price_df, Threshold) \o ExpectedRows(addr, Tail(ts))

Count(rows, r) == Cardinality({i \in 1..Len(rows) : rows[i] = r})
FrameRows(frame) == [i \in 1..Len(frame) |-> frame[i].row]
RowsOfWallet(frame, a) == SelectSeq(FrameRows(frame), LAMBDA r : r.wallet = a)

\* C1: an address whose fetch raises contributes no row, and every address
\* of the list, also those after it, is fetched and has its qualifying
\* transfers in the result.
C1_AddressIsolation ==
    ListRead =>
        /\ Len(responses) = Len(addresses)
        /\ \A i \in 1..Len(responses) :
             /\ responses[i].addr = addresses[i]
             /\ responses[i].outcome # "ok" => RowsOfWallet(df, addresses[i]) = <<>>
             /\ responses[i].outcome = "ok" =>
                  LET expected == ExpectedRows(addresses[i], responses[i].txs)
                      got == RowsOfWallet(df, addresses[i])
                  IN  /\ Len(got) = Len(expected)
                      /\ \A r \in Range(expected) : Count(got, r) = Count(expected, r)

C1_Witness ==
    /\ ListRead
    /\ Len(responses) = 2
    /\ responses[1].outcome # "ok"
    /\ responses[2].outcome = "ok"
    /\ Len(df) >= 2
    /\ \A k \in 1..Len(df) : df[k].row.wallet = addresses[2]

\* C3: no log record holds the API key in cleartext.
C3_KeyNeverLogged ==
    \A i \in 1..Len(log) : API_KEY \notin Range(log[i].text)

\* C8: the result is in descending usd_value order, and holds exactly the
\* collected rows.
C8_Descending ==
    Returned =>
        /\ \A i, j \in 1..Len(df) : i < j => df[i].row.usd_value >= df[j].row.usd_value
        /\ Len(df) = Len(all_whale_txs)
        /\ Range(df) = Range(Frame(all_whale_txs))

\* addresses [A, B], A yields 300 and 150, B yields 500: result 500, 300, 150
\* (the 150 is a native transfer, so both kinds are sorted together)
C8_Witness ==
    /\ Returned
    /\ addresses = <<"walletA", "walletB">>
    /\ RowUsd(all_whale_txs) = <<300, 150, 500>>
    /\ all_whale_txs[2].type = "NATIVE_SOL"
    /\ [i \in 1..3 |-> all_whale_txs[i].wallet] = <<"walletA", "walletA", "walletB">>
    /\ FrameUsd(df) = <<500, 300, 150>>

\* C9: rows of equal usd_value keep their discovery order.
C9_StableTies ==
    Returned =>
        \A i, j \in 1..Len(df) :
            (i < j /\ df[i].row.usd_value = df[j].row.usd_value) =>
                df[i].index < df[j].index

(* Whole runs of main *)

ConfigInvalid(c) ==
    \/ ApiKeyRaises(c, "coingecko")
    \/ ApiKeyRaises(c, "helius")
    \/ c.start_date \in {"unparsable", "missing"}
    \/ c.end_date \in {"unparsable", "missing"}

\* C10: a run of main whose configuration is invalid issues no HTTP request.
C10_NoNetworkOnBadConfig ==
    ConfigInvalid(cfg) => http = <<>>


\* the configuration makes lines 80-88 raise
WhaleConfigRaises ==
    \/ ApiKeyRaises(cfg, "helius")
    \/ GetDateRaises(cfg.start_date)
    \/ GetDateRaises(cfg.end_date)

\* C11: fetch_whale_transactions returns an empty result only when the
\* address list was read and no transfer qualified; a run whose address list
\* file is absent, or whose configuration is invalid, is aborted with an
\* error and returns nothing.
C11_EmptyMeansListRead ==
    /\ (Returned /\ df = <<>>) => (cfg.file_exists /\ all_whale_txs = <<>>)
    /\ (~cfg.file_exists \/ WhaleConfigRaises) => ~Returned


\* the address list has been read from its file
ListWasRead == pc \notin {"whale_entry", "whale_raised"} /\ cfg.file_exists

\* C12: with an empty address list the run issues no fetch and returns the
\* empty result without raising; whenever no transfer qualified the run
\* returns the empty result normally, and nothing is raised once the
\* configuration has been accepted.
C12_EmptyReturnsNormally ==
    /\ pc = "whale_raised" => WhaleConfigRaises
    /\ (ListWasRead /\ addresses = <<>>)
           => /\ http = <<>>
              /\ responses = <<>>
              /\ pc \in {"addr_loop", "whale_returned"}
              /\ pc = "addr_loop" => ENABLED Finish
    /\ (ListRead /\ all_whale_txs = <<>>) => (df = <<>> /\ ~csv_file.written)

C12_Witness ==
    /\ ListRead
    /\ cfg.address_rows = <<>>
    /\ df = <<>>
    /\ http = <<>>
    /\ responses = <<>>


\* the distinct non-blank cells of the address column, in file order
FirstOccurrences(rows) ==
    LET keep == {i \in 1..Len(rows) :
                    rows[i] # BLANK /\ \A j \in 1..(i - 1) : rows[j] # rows[i]}
        nth[k \in 0..Len(rows)] ==
            IF k = 0 THEN 0
            ELSE CHOOSE i \in keep : i > nth[k - 1] /\ \A j \in keep : j > nth[k - 1] => i <= j
    IN  [k \in 1..Cardinality(keep) |-> rows[nth[k]]]

FetchedAddrs == [i \in 1..Len(responses) |-> responses[i].addr]
\* position of a wallet among the fetched ones
FetchPos(w) == CHOOSE i \in 1..Len(responses) : responses[i].addr = w

\* C13: every distinct non-blank address of the list gets exactly one fetch
\* attempt, the addresses are taken one at a time in list order (the next
\* fetch starts only when the previous address has failed or has been
\* processed to its last transaction), and an address that failed or was
\* processed is never fetched or processed again.
C13_OneFetchPerAddress ==
    /\ \A i, j \in 1..Len(responses) : responses[i].addr = responses[j].addr => i = j
    /\ Len(http) = Len(responses) + (IF pc = "fetch_blocked" THEN 1 ELSE 0)
    /\ ListWasRead =>
          /\ Len(responses) <= Len(FirstOccurrences(cfg.address_rows))
          /\ FetchedAddrs = SubSeq(FirstOccurrences(cfg.address_rows), 1, Len(responses))
    /\ ListRead => Len(responses) = Len(FirstOccurrences(cfg.address_rows))
    /\ pc = "addr_loop" => Len(responses) = ai
    /\ pc = "tx_loop" =>
          /\ Len(responses) = ai + 1
          /\ responses[ai + 1].outcome = "ok"
          /\ txs = responses[ai + 1].txs
    /\ \A i, j \in 1..Len(all_whale_txs) :
          i < j => FetchPos(all_whale_txs[i].wallet) <= FetchPos(all_whale_txs[j].wallet)
    /\ \A i \in 1..Len(all_whale_txs) :
          responses[FetchPos(all_whale_txs[i].wallet)].outcome = "ok"

C13_Witness ==
    /\ ListRead
    /\ cfg.address_rows = <<Wallets[2], BLANK, Wallets[2]>>
    /\ Len(responses) = 1
    /\ responses[1].txs # <<>>


\* the function has returned or raised
WhaleDone == pc \in {"whale_returned", "whale_raised"}

\* C14: every fetch returns or fails, so a run that has not ended can always
\* take its next step: fetch_whale_transactions is never left waiting on a
\* request that the upstream does not answer.
C14_FetchReturnsOrFails ==
    ~WhaleDone => ENABLED Next


\* the mint identifier a token transfer is read with (a missing one is "")
MintOf(t) == IF t.mint.k = "str" THEN t.mint.v ELSE ""

\* unit price of section 4.3 of the specification, by mint identifier
SpecUnitPrice(t, tx) ==
    IF MintOf(t) \in {USDC_MINT, USDT_MINT} THEN 1
    ELSE IF MintOf(t) = WSOL_MINT THEN TxPrice(tx)
    ELSE 1

\* symbol of section 4.3: a known one, or "TOKEN-" + first 8 characters + "..."
SpecSymbol(t) ==
    IF MintOf(t) = USDC_MINT THEN <<"USDC">>
    ELSE IF MintOf(t) = USDT_MINT THEN <<"USDT">>
    ELSE IF MintOf(t) = WSOL_MINT THEN <<"wSOL">>
    ELSE LET c == MintChars(MintOf(t))
         IN  <<"TOKEN-", [i \in 1..(IF Len(c) < 8 THEN Len(c) ELSE 8) |-> c[i]], "...">>

TokenView(r) ==
    [amount |-> r.amount, usd_value |-> r.usd_value,
     token_address |-> r.token_address, token_symbol |-> r.token_symbol]

\* the token rows section 4.3 gives a valued transaction
SpecTokenRows(tx) ==
    LET valid == SelectSeq(tx.tokens, LAMBDA t : t \in ValidToken)
        kept == SelectSeq(valid, LAMBDA t : t.amount.v * SpecUnitPrice(t, tx) >= Threshold)
    IN  [i \in 1..Len(kept) |->
            [amount |-> kept[i].amount.v,
             usd_value |-> kept[i].amount.v * SpecUnitPrice(kept[i], tx),
             token_address |-> MintOf(kept[i]),
             token_symbol |-> SpecSymbol(kept[i])]]

TokenRowsOf(rows) ==
    LET tok == SelectSeq(rows, LAMBDA r : r.type = "TOKEN")
    IN  [i \in 1..Len(tok) |-> TokenView(tok[i])]

GoodTxs(ts) == SelectSeq(ts, LAMBDA t : ~TxRaises(t, price_df))
HasRaisingTx(ts) == \E k \in 1..Len(ts) : TxRaises(ts[k], price_df)
\* every row of `kept` is in `got`, as many times
Holds(got, kept) == \A r \in Range(kept) : Count(got, r) >= Count(kept, r)

\* C16: an exception raised while one transaction is processed stays inside
\* that transaction's address: nothing is raised out of the run, the rows
\* retained so far stay, and the later transactions of the address and the
\* later addresses are processed, so the rows of every transaction that does
\* not raise are in the result.
C16_TxIsolation ==
    /\ pc = "whale_raised" => responses = <<>>
    /\ pc = "tx_loop" =>
          Holds(SelectSeq(all_whale_txs, LAMBDA r : r.wallet = addresses[ai + 1]),
                ExpectedRows(addresses[ai + 1], GoodTxs(SubSeq(txs, 1, ti))))
    /\ ListRead =>
          /\ Len(responses) = Len(addresses)
          /\ \A i \in 1..Len(responses) :
                responses[i].outcome = "ok" =>
                    Holds(RowsOfWallet(df, addresses[i]),
                          ExpectedRows(addresses[i], GoodTxs(responses[i].txs)))

C16_Witness ==
    /\ ListRead
    /\ Len(responses) = 2
    /\ Len(responses[1].txs) = 2
    /\ ~responses[1].txs[1].has_ts
    /\ ~TxRaises(responses[1].txs[2], price_df)
    /\ Len(responses[2].txs) = 1
    /\ ~TxRaises(responses[2].txs[1], price_df)
    /\ FrameUsd(df) = <<500, 300>>
    /\ df[1].row.wallet = addresses[2]
    /\ df[2].row.wallet = addresses[1]


\* C17: a transaction whose processing raises at transaction scope is
\* skipped as a unit: none of its transfers is in the result, also when the
\* exception comes after some of its native transfers were valued.
C17_SkippedAsUnit ==
    (Returned /\ TxRaises(TheTx, price_df)) => (all_whale_txs = <<>> /\ df = <<>>)

====
